---- MODULE Spec2Model ----
(***************************************************************************)
(* Weekly timesheet (src/Timesheet.py): the timer toggle, the row          *)
(* repository and the week submission, as the Dash callbacks implement     *)
(* them.  One browser client holds a copy of the whole JSON document in    *)
(* its "store" and the active-timer pointer in its "ui-store"; every       *)
(* callback works on that copy and rewrites the data file wholesale.       *)
(*                                                                         *)
(* Time is counted in minutes since Monday 00:00 of the week the           *)
(* application is started in; dates are day numbers from that Monday.      *)
(* Durations are kept in minutes (the code's hours are minutes / 60).      *)
(***************************************************************************)
EXTENDS Integers, Sequences, FiniteSets, TLC

\* ------------------------------------------------------------------ bounds
MaxRows == 2          \* rows a sheet may hold
SubmitRows == 1       \* rows a sheet may hold where weeks are submitted
MaxSessions == 1      \* closed sessions a sheet may hold
MaxNoted == 1         \* cells of a sheet that may carry non-empty notes

\* --------------------------------------------------------------- constants
DaysPerWeek == 7
MinutesPerDay == 24 * 60
SlotMinutes == 60 + 30             \* the short clock step: an hour and a half
\* the instants at which callbacks run: Monday and Tuesday, 00:00 and 01:30
ClockTimes == {0, SlotMinutes, MinutesPerDay, MinutesPerDay + SlotMinutes}
MondayTimes == {0, SlotMinutes}

None == -1            \* JSON null in a timestamp or status field
NoPtr == <<>>         \* ui-store without a "running" pair

Clients == {"c1", "c2"}
Solo == {"c1"}
Emps == {"Dipangsu Mukherjee"}
EMPLOYEE_DATA == [e \in Emps |-> "Technical"]
WeekDates == {0, 1}   \* dates the week picker offers: a Monday, a Tuesday
NoTask == ""                       \* no task chosen in the dropdown
OneTask == {NoTask, "Adhoc"}
Tasks == {NoTask, "Adhoc", "Meeting"}
Subtasks == {""}                   \* no subtask chosen
NoteTexts == {<<>>, <<" ">>, <<" ", "n">>}
NoteDays == {0}       \* day columns whose textarea is edited
RemoteOutcomes == {200, 500, 0}   \* status code of the POST; 0: the POST raised
Sinks == {"answers", "refuses", "silent"}   \* what the remote sink does with a POST

VARIABLES
    file,     \* DATA_FILE: key -> entry
    store,    \* per client: dcc.Store "store", the client's copy of the document
    ui,       \* per client: the "running" pair of dcc.Store "ui-store", or NoPtr
    emp,      \* per client: value of the employee dropdown
    week,     \* per client: date of the week picker
    now,      \* wall clock, minutes
    out,      \* what this step's callback did to the outside: raise, export, POST
    call      \* the submit_week call that waits in requests.post, if any

vars == <<file, store, ui, emp, week, now, out, call>>

\* ------------------------------------------------------------ data shapes
EmptyDay == [sessions |-> <<>>, notes |-> <<>>, running_start |-> None]

NewEntry == [rows |-> <<>>, submitted |-> FALSE, server_upload_status |-> None]

\* mutant of NewRow: the new row's cells start with a note
NewRow_Noted(task, subtask) ==
    [task |-> task, subtask |-> subtask,
     days |-> [i \in 1..DaysPerWeek |-> [EmptyDay EXCEPT !.notes = <<"n">>]]]

NewRow(task, subtask) ==
    [task |-> task, subtask |-> subtask,
     days |-> [i \in 1..DaysPerWeek |-> EmptyDay]]

Key(e, w) == <<e, w>>

EntryOf(data, key) == IF key \in DOMAIN data THEN data[key] ELSE NewEntry

RowsOf(data, key) == EntryOf(data, key).rows

Put(data, key, entry) ==
    [k \in DOMAIN data \cup {key} |-> IF k = key THEN entry ELSE data[k]]

PutRows(data, key, rows) ==
    Put(data, key, [EntryOf(data, key) EXCEPT !.rows = rows])

Today(t) == t \div MinutesPerDay

\* d - timedelta(days=d.weekday()); day number 0 is a Monday
monday_of(d) == d - (d % DaysPerWeek)

\* ------------------------------------------------------------- aggregator
RECURSIVE SumSessions(_)
SumSessions(ss) ==
    IF ss = <<>> THEN 0
    ELSE (Head(ss)[2] - Head(ss)[1]) + SumSessions(Tail(ss))

\* mutant of running_hours: the subtraction is the wrong way round
running_hours_Reversed(day_obj, t) ==
    IF day_obj.running_start # None THEN day_obj.running_start - t ELSE 0

running_hours(day_obj, t) ==
    IF day_obj.running_start # None THEN t - day_obj.running_start ELSE 0

\* parse_iso(None) raises TypeError
DayRaises(day_obj) ==
    \E i \in 1..Len(day_obj.sessions) : day_obj.sessions[i][1] = None

day_total_hours(day_obj, t) ==
    SumSessions(day_obj.sessions) + running_hours(day_obj, t)

\* sum(day_total_hours(d) for d in days), continuing from `acc`
RECURSIVE DaysTotal(_, _, _)
DaysTotal(days, t, acc) ==
    IF days = <<>> THEN acc
    ELSE DaysTotal(Tail(days), t, acc + day_total_hours(Head(days), t))

row_total(row_obj, t) == DaysTotal(row_obj.days, t, 0)

\* lines 637-641: one accumulator runs over the days of all the rows
RECURSIVE WeekAccum(_, _, _)
WeekAccum(rows, t, acc) ==
    IF rows = <<>> THEN acc
    ELSE WeekAccum(Tail(rows), t, DaysTotal(Head(rows).days, t, acc))

\* mutant of week_total: the accumulator starts again with every row
week_total_LastRow(rows, t) ==
    IF rows = <<>> THEN 0 ELSE row_total(rows[Len(rows)], t)

week_total(rows, t) == WeekAccum(rows, t, 0)

\* HH:MM of a duration, as the pair <<hh, mm>>
format_hours_hhmm(minutes) == <<minutes \div 60, minutes % 60>>

\* ------------------------------------------------------------ str.strip()
IsSpace(ch) == ch = " "

RECURSIVE LStrip(_)
LStrip(s) ==
    IF s # <<>> /\ IsSpace(Head(s)) THEN LStrip(Tail(s)) ELSE s

RECURSIVE RStrip(_)
RStrip(s) ==
    IF s # <<>> /\ IsSpace(s[Len(s)]) THEN RStrip(SubSeq(s, 1, Len(s) - 1)) ELSE s

Strip(s) == RStrip(LStrip(s))

\* ------------------------------------------------------------- repository
\* Result of a callback: the document and pointer it returns, the branch it
\* took, and whether it wrote the file, raised, wrote a workbook, posted.
Result(data, ptr, branch, saved, raised, xlsx, post) ==
    [data |-> data, ui |-> ptr, branch |-> branch, saved |-> saved,
     raised |-> raised, xlsx |-> xlsx, post |-> post]

\* mutant of load_user: the sheet is created anew on every call
load_user_Recreates(filedata, ptr, e, w) ==
    Result(Put(filedata, Key(e, w), NewEntry), ptr, "created", TRUE, FALSE, FALSE, FALSE)

\* ui-store is no output of load_user: the pointer is handed through
load_user(filedata, ptr, e, w) ==
    LET key == Key(e, w) IN
    IF key \notin DOMAIN filedata
    THEN Result(Put(filedata, key, NewEntry), ptr, "created", TRUE, FALSE, FALSE, FALSE)
    ELSE Result(filedata, ptr, "loaded", FALSE, FALSE, FALSE, FALSE)

\* mutant of AppendRow: the entry is rebuilt around the rows alone
AppendRow_Rebuilt(entry, new_row) ==
    [NewEntry EXCEPT !.rows = Append(entry.rows, new_row)]

AppendRow(entry, new_row) == [entry EXCEPT !.rows = Append(@, new_row)]

add_row(data, ptr, e, w, task, subtask) ==
    IF task = NoTask
    THEN Result(data, ptr, "reject", FALSE, FALSE, FALSE, FALSE)
    ELSE LET key == Key(e, w)
             new_row == NewRow(task, subtask)
         IN Result(Put(data, key, AppendRow(EntryOf(data, key), new_row)),
                   ptr, "added", TRUE, FALSE, FALSE, FALSE)

\* mutant of Pop: the last row is removed, whatever the index
Pop_Last(rows, idx) == SubSeq(rows, 1, Len(rows) - 1)

\* mutant of Pop: the first row is removed, whatever the index
Pop_Head(rows, idx) == SubSeq(rows, 2, Len(rows))

Pop(rows, idx) == SubSeq(rows, 1, idx) \o SubSeq(rows, idx + 2, Len(rows))

\* mutant of delete_row: the row is popped but the file is not rewritten
delete_row_Unsaved(data, ptr, e, w, idx) ==
    LET key == Key(e, w)
        rows == RowsOf(data, key)
    IN IF 0 <= idx /\ idx < Len(rows)
       THEN Result(PutRows(data, key, Pop(rows, idx)), ptr, "deleted",
                   FALSE, FALSE, FALSE, FALSE)
       ELSE Result(data, ptr, "nop", FALSE, FALSE, FALSE, FALSE)

delete_row(data, ptr, e, w, idx) ==
    LET key == Key(e, w)
        rows == RowsOf(data, key)
    IN IF 0 <= idx /\ idx < Len(rows)
       THEN Result(PutRows(data, key, Pop(rows, idx)), ptr, "deleted",
                   TRUE, FALSE, FALSE, FALSE)
       ELSE Result(data, ptr, "nop", FALSE, FALSE, FALSE, FALSE)

\* ------------------------------------------------------------ timer toggle
SetDay(rows, row, day, day_obj) ==
    [rows EXCEPT ![row + 1].days[day + 1] = day_obj]

\* mutant of CloseDay: the session is recorded but the timer is left open
CloseDay_KeepsRunning(day_obj, t) ==
    [day_obj EXCEPT !.sessions = Append(@, <<day_obj.running_start, t>>)]

CloseDay(day_obj, t) ==
    [day_obj EXCEPT !.sessions = Append(@, <<day_obj.running_start, t>>),
                    !.running_start = None]

StartDay(day_obj, t) == [day_obj EXCEPT !.running_start = t]

\* mutant of IsToday: the check against date.today() is dropped
IsToday_Always(w, day, t) == TRUE

IsToday(w, day, t) == w + day = Today(t)

\* mutant of StopOld: the running timer is not stopped before the next starts
StopOld_Skipped(rows, running, t) == rows

\* lines 807-814: stop the timer the pointer names, if that cell is running
StopOld(rows, running, t) ==
    IF running = NoPtr THEN rows
    ELSE LET r == running[1]
             di == running[2]
         IN IF r < Len(rows) /\ di < Len(rows[r + 1].days)
            THEN LET old == rows[r + 1].days[di + 1] IN
                 IF old.running_start # None
                 THEN SetDay(rows, r, di, CloseDay(old, t))
                 ELSE rows
            ELSE rows

toggle(data, ptr, e, w, row, day, t) ==
    LET key == Key(e, w)
        rows == RowsOf(data, key)
    IN IF row < 0 \/ day < 0      \* "-" in the index: int("") raises ValueError
       THEN Result(data, ptr, "nop", FALSE, FALSE, FALSE, FALSE)
       ELSE IF rows = <<>> \/ row >= Len(rows)
       THEN Result(data, ptr, "nop", FALSE, FALSE, FALSE, FALSE)
       ELSE IF day >= Len(rows[row + 1].days)      \* IndexError
       THEN Result(data, ptr, "raise", FALSE, TRUE, FALSE, FALSE)
       ELSE LET d == rows[row + 1].days[day + 1]
                running == ptr
                is_currently_running == running = <<row, day>>
            IN IF is_currently_running
               THEN Result(PutRows(data, key, SetDay(rows, row, day, CloseDay(d, t))),
                           NoPtr, "stop", TRUE, FALSE, FALSE, FALSE)
               ELSE IF IsToday(w, day, t)
               THEN LET stopped == StopOld(rows, running, t)
                        started == SetDay(stopped, row, day,
                                          StartDay(stopped[row + 1].days[day + 1], t))
                    IN Result(PutRows(data, key, started), <<row, day>>, "start",
                              TRUE, FALSE, FALSE, FALSE)
               ELSE Result(data, ptr, "skip", TRUE, FALSE, FALSE, FALSE)

\* ------------------------------------------------------------------ notes
\* mutant of save_notes: the edited cell is written anew around its note
save_notes_ResetsCell(data, ptr, e, w, row, day, text) ==
    LET key == Key(e, w)
        rows == RowsOf(data, key)
        noted == [r \in 1..Len(rows) |->
                    [rows[r] EXCEPT !.days =
                        [i \in 1..Len(rows[r].days) |->
                            IF r = row + 1 /\ i = day + 1
                            THEN [EmptyDay EXCEPT !.notes = text]
                            ELSE rows[r].days[i]]]]
    IN IF data = <<>>
       THEN Result(data, ptr, "nop", FALSE, FALSE, FALSE, FALSE)
       ELSE Result(IF key \in DOMAIN data THEN PutRows(data, key, noted) ELSE data,
                   ptr, "noted", TRUE, FALSE, FALSE, FALSE)

\* The Save button sends every rendered textarea: the edited one carries
\* `text`, the others the notes they were rendered with.
save_notes(data, ptr, e, w, row, day, text) ==
    LET key == Key(e, w)
        rows == RowsOf(data, key)
        noted == [r \in 1..Len(rows) |->
                    [rows[r] EXCEPT !.days =
                        [i \in 1..Len(rows[r].days) |->
                            IF r = row + 1 /\ i = day + 1
                            THEN [rows[r].days[i] EXCEPT !.notes = text]
                            ELSE rows[r].days[i]]]]
    IN IF data = <<>>              \* `not data`
       THEN Result(data, ptr, "nop", FALSE, FALSE, FALSE, FALSE)
       ELSE Result(IF key \in DOMAIN data THEN PutRows(data, key, noted) ELSE data,
                   ptr, "noted", TRUE, FALSE, FALSE, FALSE)

\* ------------------------------------------------------------- submission
ExportRecord(e, w, row_obj, di, t) ==
    [Employee |-> e, Department |-> EMPLOYEE_DATA[e], Date |-> w + di,
     Task |-> row_obj.task, Subtask |-> row_obj.subtask,
     Hours |-> day_total_hours(row_obj.days[di + 1], t),
     Notes |-> Strip(row_obj.days[di + 1].notes)]

\* mutant of Exported: only cells with hours are exported
Exported_HoursOnly(day_obj, t) == day_total_hours(day_obj, t) > 0

Exported(day_obj, t) ==
    day_total_hours(day_obj, t) > 0 \/ Strip(day_obj.notes) # <<>>

\* lines 885-913: the cells from number k on, row by row and day by day
RECURSIVE ExportFrom(_, _, _, _, _)
ExportFrom(rows, k, e, w, t) ==
    IF k >= Len(rows) * DaysPerWeek THEN <<>>
    ELSE LET row_obj == rows[(k \div DaysPerWeek) + 1]
             di == k % DaysPerWeek
             rest == ExportFrom(rows, k + 1, e, w, t)
         IN IF Exported(row_obj.days[di + 1], t)
            THEN <<ExportRecord(e, w, row_obj, di, t)>> \o rest
            ELSE rest

export_data(rows, e, w, t) == ExportFrom(rows, 0, e, w, t)

RowsRaise(rows) ==
    \E r \in 1..Len(rows) : \E i \in 1..DaysPerWeek : DayRaises(rows[r].days[i])

\* mutant of Submitted: the entry is written anew, without its rows
Submitted_Anew(entry, status) ==
    [NewEntry EXCEPT !.server_upload_status = status, !.submitted = TRUE]

\* mutant of Submitted: the week is marked submitted only on a 200 answer
Submitted_OnlyOn200(entry, status) ==
    [entry EXCEPT !.server_upload_status = status, !.submitted = (status = 200)]

Submitted(entry, status) ==
    [entry EXCEPT !.server_upload_status = status, !.submitted = TRUE]

\* mutant of submit_week: the week is marked submitted and saved before the
\* workbook is written
submit_week_SavesFirst(data, ptr, e, w, t, xlsx_ok, remote) ==
    LET key == Key(e, w)
        rows == RowsOf(data, key)
        entry == EntryOf(data, key)
    IN IF data = <<>>
       THEN Result(data, ptr, "nop", FALSE, FALSE, FALSE, FALSE)
       ELSE IF RowsRaise(rows)
       THEN Result(data, ptr, "raise", FALSE, TRUE, FALSE, FALSE)
       ELSE IF ~xlsx_ok
       THEN Result(Put(data, key, Submitted(entry, None)), ptr, "raise",
                   TRUE, TRUE, FALSE, FALSE)
       ELSE Result(Put(data, key, Submitted(entry, remote)), ptr, "submitted",
                   TRUE, FALSE, TRUE, TRUE)

submit_week(data, ptr, e, w, t, xlsx_ok, remote) ==
    LET key == Key(e, w)
        rows == RowsOf(data, key)
        entry == EntryOf(data, key)
    IN IF data = <<>>              \* `not data`
       THEN Result(data, ptr, "nop", FALSE, FALSE, FALSE, FALSE)
       ELSE IF RowsRaise(rows)     \* day_total_hours raises at line 887
       THEN Result(data, ptr, "raise", FALSE, TRUE, FALSE, FALSE)
       ELSE IF ~xlsx_ok            \* wb.save raises at line 916
       THEN Result(data, ptr, "raise", FALSE, TRUE, FALSE, FALSE)
       ELSE Result(Put(data, key, Submitted(entry, remote)), ptr, "submitted",
                   TRUE, FALSE, TRUE, TRUE)

\* ---------------------------------------------------------------- measures
RECURSIVE DaySessions(_)
DaySessions(days) ==
    IF days = <<>> THEN 0 ELSE Len(Head(days).sessions) + DaySessions(Tail(days))

RECURSIVE SheetSessions(_)
SheetSessions(rows) ==
    IF rows = <<>> THEN 0 ELSE DaySessions(Head(rows).days) + SheetSessions(Tail(rows))

RECURSIVE DayNoted(_)
DayNoted(days) ==
    IF days = <<>> THEN 0
    ELSE (IF Head(days).notes # <<>> THEN 1 ELSE 0) + DayNoted(Tail(days))

RECURSIVE SheetNoted(_)
SheetNoted(rows) ==
    IF rows = <<>> THEN 0 ELSE DayNoted(Head(rows).days) + SheetNoted(Tail(rows))

Viewed(c) == RowsOf(store[c], Key(emp[c], week[c]))

\* ------------------------------------------------------------------ actions
Emp0 == CHOOSE e \in Emps : TRUE     \* the dropdown's first employee
Week0 == 0                           \* current_week_start: this week's Monday

Outcome(res) == [raised |-> res.raised, xlsx |-> res.xlsx, post |-> res.post]

Quiet == [raised |-> FALSE, xlsx |-> FALSE, post |-> FALSE]

\* no submit_week call waits in requests.post
NoCall == [pos |-> "idle", sink |-> "none", client |-> "", data |-> <<>>,
           key |-> <<>>, at |-> 0]

\* A callback's outputs reach the client's stores; save_json rewrites the file.
Deliver(c, res) ==
    /\ store' = [store EXCEPT ![c] = res.data]
    /\ ui' = [ui EXCEPT ![c] = res.ui]
    /\ file' = IF res.saved THEN res.data ELSE file
    /\ out' = Outcome(res)

\* Page load: load_user fires once with the layout's employee and week.
Init ==
    \E res \in {load_user(<<>>, NoPtr, Emp0, Week0)} :
        /\ file = res.data
        /\ store = [c \in Clients |-> IF c \in Solo THEN res.data ELSE <<>>]
        /\ ui = [c \in Clients |-> NoPtr]
        /\ emp = [c \in Clients |-> Emp0]
        /\ week = [c \in Clients |-> Week0]
        /\ now = 0
        /\ out = Quiet
        /\ call = NoCall

\* The wall clock moves on to a later one of the instants `times`.
Tick(times) ==
    \E t \in times :
        /\ t > now
        /\ now' = t
        /\ out' = Quiet
        /\ UNCHANGED <<file, store, ui, emp, week, call>>

LoadUserStep(c, e, w) ==
    /\ \E res \in {load_user(file, ui[c], e, w)} : Deliver(c, res)
    /\ emp' = [emp EXCEPT ![c] = e]
    /\ week' = [week EXCEPT ![c] = w]
    /\ UNCHANGED <<now, call>>

LoadUser(c, weeks) == \E e \in Emps, w \in weeks : LoadUserStep(c, e, w)

\* what add_row returns to client c
AddRowResult(c, task, subtask) ==
    add_row(store[c], ui[c], emp[c], week[c], task, subtask)

AddRowStep(c, task, subtask) ==
    /\ \E res \in {AddRowResult(c, task, subtask)} : Deliver(c, res)
    /\ UNCHANGED <<emp, week, now, call>>

AddRow(c, tasks, maxrows) ==
    \E task \in tasks, subtask \in Subtasks :
        /\ task # NoTask => Len(Viewed(c)) < maxrows
        /\ AddRowStep(c, task, subtask)

\* what delete_row returns to client c
DeleteRowResult(c, idx) ==
    delete_row(store[c], ui[c], emp[c], week[c], idx)

DeleteRowStep(c, idx) ==
    /\ \E res \in {DeleteRowResult(c, idx)} : Deliver(c, res)
    /\ UNCHANGED <<emp, week, now, call>>

DeleteRow(c, rowIdx) == \E idx \in rowIdx : DeleteRowStep(c, idx)

\* what toggle returns to client c for the button of cell (row, day)
ToggleResult(c, row, day) ==
    toggle(store[c], ui[c], emp[c], week[c], row, day, now)

ToggleStep(c, row, day) ==
    /\ \E res \in {ToggleResult(c, row, day)} : Deliver(c, res)
    /\ UNCHANGED <<emp, week, now, call>>

\* Row and day indexes the rendered buttons carry (a button of a row deleted
\* since the last render still carries its old row index).
ButtonRows == 0..MaxRows
ButtonDays == 0..(DaysPerWeek - 1)

Toggle(c, rowIdx, dayIdx) ==
    \E row \in rowIdx, day \in dayIdx :
        /\ ToggleStep(c, row, day)
        /\ SheetSessions(Viewed(c)') <= MaxSessions

\* what save_notes returns to client c
SaveNotesResult(c, row, day, text) ==
    save_notes(store[c], ui[c], emp[c], week[c], row, day, text)

SaveNotesStep(c, row, day, text) ==
    /\ \E res \in {SaveNotesResult(c, row, day, text)} : Deliver(c, res)
    /\ UNCHANGED <<emp, week, now, call>>

SaveNotes(c, rowIdx) ==
    \E row \in rowIdx, day \in NoteDays, text \in NoteTexts :
        /\ SaveNotesStep(c, row, day, text)
        /\ SheetNoted(Viewed(c)') <= MaxNoted

\* what submit_week returns to client c
SubmitWeekResult(c, xlsx_ok, remote) ==
    submit_week(store[c], ui[c], emp[c], week[c], now, xlsx_ok, remote)

SubmitWeekStep(c, xlsx_ok, remote) ==
    /\ \E res \in {SubmitWeekResult(c, xlsx_ok, remote)} : Deliver(c, res)
    /\ UNCHANGED <<emp, week, now, call>>

SubmitWeek(c) ==
    \E xlsx_ok \in BOOLEAN, remote \in RemoteOutcomes : SubmitWeekStep(c, xlsx_ok, remote)

\* mutant of PostEnds: the POST has no timeout, a silent sink never ends it
PostEnds_NoTimeout(sink) ==
    CASE sink = "answers" -> {200, 500}
      [] sink = "refuses" -> {0}
      [] OTHER -> {}

\* lines 918-925: the ways requests.post(..., timeout=3) ends.  An answer gives
\* its status code; a refused connection raises at once and a sink that sends
\* nothing raises when the timeout expires, and `except Exception` turns both
\* into status 0.
PostEnds(sink) ==
    CASE sink = "answers" -> {200, 500}
      [] sink = "refuses" -> {0}
      [] OTHER -> {0}

\* submit_week up to requests.post (lines 869-919): a call that fails before
\* the POST ends here; otherwise the workbook is written and the call waits
\* for the sink, holding the document it was given.  One call waits at a time.
SubmitBegin(c, xlsx_ok, sink) ==
    /\ call.pos = "idle"
    /\ \E res \in {SubmitWeekResult(c, xlsx_ok, 0)} :
           IF res.branch # "submitted"
           THEN Deliver(c, res) /\ call' = NoCall
           ELSE /\ call' = [pos |-> "posting", sink |-> sink, client |-> c,
                            data |-> store[c], key |-> <<emp[c], week[c]>>,
                            at |-> now]
                /\ out' = [raised |-> FALSE, xlsx |-> TRUE, post |-> FALSE]
                /\ UNCHANGED <<file, store, ui>>
    /\ UNCHANGED <<emp, week, now>>

\* requests.post ends (lines 920-925) and submit_week runs to its return
\* (lines 927-930) on the document it was given.
PostReturns(c) ==
    /\ call.pos = "posting"
    /\ call.client = c
    /\ \E status \in PostEnds(call.sink) :
           \E res \in {submit_week(call.data, ui[c], call.key[1], call.key[2],
                                  call.at, TRUE, status)} :
               Deliver(c, res)
    /\ call' = [NoCall EXCEPT !.sink = call.sink]
    /\ UNCHANGED <<emp, week, now>>

\* One client, one week sheet: the timer machine and the row repository.
Next ==
    \/ Tick(ClockTimes)
    \/ \E c \in Solo : AddRow(c, OneTask, MaxRows)
    \/ \E c \in Solo : DeleteRow(c, ButtonRows)
    \/ \E c \in Solo : Toggle(c, ButtonRows, ButtonDays)

Spec == Init /\ [][Next]_vars

\* The timer machine alone, on a sheet that already holds its rows: every
\* index a toggle request can carry, and the clock.
RECURSIVE Filled(_, _)
Filled(data, n) ==
    IF n = 0 THEN data
    ELSE Filled(add_row(data, NoPtr, Emp0, Week0, "Adhoc", "").data, n - 1)

AnyRows == -1..MaxRows
AnyDays == -1..DaysPerWeek

InitToggle ==
    \E n \in 1..MaxRows :
        \E data \in {Filled(load_user(<<>>, NoPtr, Emp0, Week0).data, n)} :
            /\ file = data
            /\ store = [c \in Clients |-> IF c \in Solo THEN data ELSE <<>>]
            /\ ui = [c \in Clients |-> NoPtr]
            /\ emp = [c \in Clients |-> Emp0]
            /\ week = [c \in Clients |-> Week0]
            /\ now = 0
            /\ out = Quiet
            /\ call = NoCall

NextToggle ==
    \/ Tick(ClockTimes)
    \/ \E c \in Solo : Toggle(c, AnyRows, AnyDays)

SpecToggle == InitToggle /\ [][NextToggle]_vars

\* The whole application for one client: rows, timers, notes, the week
\* picker and the submission.
NextSubmit ==
    \/ Tick(MondayTimes)
    \/ \E c \in Solo : LoadUser(c, {Week0})
    \/ \E c \in Solo : AddRow(c, OneTask, SubmitRows)
    \/ \E c \in Solo : DeleteRow(c, 0..SubmitRows)
    \/ \E c \in Solo : Toggle(c, 0..SubmitRows, ButtonDays)
    \/ \E c \in Solo : SaveNotes(c, 0..(SubmitRows - 1))
    \/ \E c \in Solo : SubmitWeek(c)

SpecSubmit == Init /\ [][NextSubmit]_vars

\* Two browser clients on the same week sheet: both pages have loaded, so both
\* stores hold the document that load_user created for the first of them.
InitDuo ==
    \E res \in {load_user(<<>>, NoPtr, Emp0, Week0)} :
        /\ file = res.data
        /\ store = [c \in Clients |-> load_user(res.data, NoPtr, Emp0, Week0).data]
        /\ ui = [c \in Clients |-> NoPtr]
        /\ emp = [c \in Clients |-> Emp0]
        /\ week = [c \in Clients |-> Week0]
        /\ now = 0
        /\ out = Quiet
        /\ call = NoCall

NextDuo ==
    \/ Tick(MondayTimes)
    \/ \E c \in Clients : AddRow(c, OneTask, SubmitRows)
    \/ \E c \in Clients : Toggle(c, 0..SubmitRows, ButtonDays)
    \/ \E c \in Clients : LoadUser(c, {Week0})

SpecDuo == InitDuo /\ [][NextDuo]_vars

\* One client that also moves the week picker, to this week's Monday or to
\* its Tuesday.
DayStarts == {0, MinutesPerDay}       \* Monday 00:00 and Tuesday 00:00
PickedDays == WeekDates               \* the day columns of those two dates

NextWeek ==
    \/ Tick(DayStarts)
    \/ \E c \in Solo : LoadUser(c, WeekDates)
    \/ \E c \in Solo : AddRow(c, OneTask, SubmitRows)
    \/ \E c \in Solo : Toggle(c, 0..SubmitRows, PickedDays)

SpecWeek == Init /\ [][NextWeek]_vars

\* The submission alone, on sheets as Tuesday 01:30 can find them: each
\* Monday and Tuesday cell is empty, or holds a note of one blank, or a note
\* with text, or one closed session of that day.
CellKinds == 1..4

CellOfKind(kind, day) ==
    IF kind = 1 THEN EmptyDay
    ELSE IF kind = 2 THEN [EmptyDay EXCEPT !.notes = <<" ">>]
    ELSE IF kind = 3 THEN [EmptyDay EXCEPT !.notes = <<" ", "n">>]
    ELSE [EmptyDay EXCEPT !.sessions =
              <<<<day * MinutesPerDay, day * MinutesPerDay + SlotMinutes>>>>]

SheetOf(n, fill) ==
    [i \in 1..n |->
        [NewRow(IF i % 2 = 1 THEN "Adhoc" ELSE "Meeting", "") EXCEPT !.days =
            [d \in 1..DaysPerWeek |->
                IF d - 1 \in PickedDays THEN CellOfKind(fill[<<i, d - 1>>], d - 1)
                ELSE EmptyDay]]]

ExportTimes == {MinutesPerDay + SlotMinutes, 2 * MinutesPerDay}

InitExport ==
    \E n \in 1..(SubmitRows + 1) :
        \E fill \in [(1..n) \X PickedDays -> CellKinds] :
            \E data \in {PutRows(load_user(<<>>, NoPtr, Emp0, Week0).data,
                                  Key(Emp0, Week0), SheetOf(n, fill))} :
                /\ file = data
                /\ store = [c \in Clients |-> IF c \in Solo THEN data ELSE <<>>]
                /\ ui = [c \in Clients |-> NoPtr]
                /\ emp = [c \in Clients |-> Emp0]
                /\ week = [c \in Clients |-> Week0]
                /\ now = MinutesPerDay + SlotMinutes
                /\ out = Quiet
                /\ call = NoCall

NextExport ==
    \/ Tick(ExportTimes)
    \/ \E c \in Solo : SubmitWeek(c)

SpecExport == InitExport /\ [][NextExport]_vars

\* Two clients that also move the week picker: two keys in one data file.
NextKeys ==
    \/ \E c \in Clients : AddRow(c, OneTask, SubmitRows)
    \/ \E c \in Clients : Toggle(c, 0..(SubmitRows - 1), PickedDays)
    \/ \E c \in Clients : LoadUser(c, WeekDates)

SpecKeys == InitDuo /\ [][NextKeys]_vars

\* Submit with the POST as a step of its own: the call waits in requests.post
\* while the clock and the client's other callbacks go on.  The interpreter
\* resumes the call once requests.post has ended: weak fairness of PostReturns.
NextLive ==
    \/ Tick(MondayTimes)
    \/ \E c \in Solo : AddRow(c, OneTask, SubmitRows)
    \/ \E c \in Solo : Toggle(c, 0..(SubmitRows - 1), NoteDays)
    \/ \E c \in Solo : \E xlsx_ok \in BOOLEAN, sink \in Sinks : SubmitBegin(c, xlsx_ok, sink)
    \/ \E c \in Solo : PostReturns(c)

SpecLive == Init /\ [][NextLive]_vars /\ WF_vars(\E c \in Solo : PostReturns(c))

\* ================================================================= claims
\* Cells of a sheet, as (row, day) button indexes, and those with a timer open.
CellsOf(rows) == (0..(Len(rows) - 1)) \X (0..(DaysPerWeek - 1))

DayOf(rows, cell) == rows[cell[1] + 1].days[cell[2] + 1]

RunningCells(rows) == {cell \in CellsOf(rows) : DayOf(rows, cell).running_start # None}

Me == "c1"

MyKey == Key(emp[Me], week[Me])

\* C1: from a sheet with no timer open and no pointer, after any sequence of
\* Toggle calls, with today advancing between them, at most one DayRecord of
\* the sheet has runningStart set.
C1_ToggleKeepsOneRunning ==
    \A a \in RunningCells(Viewed(Me)), b \in RunningCells(Viewed(Me)) : a = b

\* C1 witness: a timer was started on Tuesday's cell of one row while
\* Monday's timer of the other row was still open, which closed it.
C1_Witness ==
    \E a \in CellsOf(Viewed(Me)), b \in CellsOf(Viewed(Me)) :
        /\ a[1] # b[1]
        /\ DayOf(Viewed(Me), a).running_start = MinutesPerDay
        /\ ui[Me] = a
        /\ DayOf(Viewed(Me), b).sessions = <<<<0, MinutesPerDay>>>>
        /\ DayOf(Viewed(Me), b).running_start = None

\* C2: after any sequence of Toggle, AddRow and DeleteRow by one client on one
\* week sheet, at most one DayRecord of the sheet has runningStart set.
C2_AtMostOneRunning == Cardinality(RunningCells(Viewed(Me))) <= 1

\* C3: after every completed operation the active-timer pointer and the viewed
\* sheet agree: the pointer is (r, d) exactly when that cell has runningStart
\* set, and none exactly when no cell has.
C3_PointerAgrees ==
    RunningCells(Viewed(Me)) = (IF ui[Me] = NoPtr THEN {} ELSE {ui[Me]})

\* C4: when DeleteRow removes the row the active-timer pointer references, the
\* pointer is none in the state DeleteRow returns.
C4_DeleteClearsPointer ==
    [][\A idx \in 0..MaxRows :
          (/\ DeleteRowStep(Me, idx)
           /\ idx < Len(Viewed(Me))
           /\ ui[Me] # NoPtr
           /\ ui[Me][1] = idx)
          => ui'[Me] = NoPtr]_vars

\* C5: Toggle on an in-range cell that the pointer does not reference changes
\* no DayRecord and not the pointer when the cell's date is not today, and sets
\* the cell's runningStart and points the pointer at it when the date is today.
\* Stated of what toggle hands back to the client's stores, in every state
\* the client can reach.
C5_ToggleOffPointer ==
    \A row \in ButtonRows, day \in ButtonDays :
        (row < Len(Viewed(Me)) /\ ui[Me] # <<row, day>>)
        => \E res \in {ToggleResult(Me, row, day)} :
              IF week[Me] + day # Today(now)
              THEN /\ RowsOf(res.data, MyKey) = Viewed(Me)
                   /\ res.data = store[Me]
                   /\ res.ui = ui[Me]
              ELSE /\ DayOf(RowsOf(res.data, MyKey), <<row, day>>).running_start = now
                   /\ res.ui = <<row, day>>

\* C5 witness: a timer started today on one cell while a cell of another day,
\* in range and not referenced, sits beside it untouched.
C5_Witness ==
    /\ ui[Me] # NoPtr
    /\ ui[Me][1] < Len(Viewed(Me))
    /\ DayOf(Viewed(Me), ui[Me]).running_start = now
    /\ week[Me] + ui[Me][2] = Today(now)
    /\ \E cell \in CellsOf(Viewed(Me)) :
          /\ week[Me] + cell[2] # Today(now)
          /\ DayOf(Viewed(Me), cell) = EmptyDay

\* C6: Toggle on the cell the pointer references appends one session from the
\* cell's runningStart to now, clears runningStart, clears the pointer and
\* changes no other cell, whatever today is; the day total then counts the
\* closed interval.
C6_ToggleOnPointer ==
    [][\A row \in ButtonRows, day \in ButtonDays :
          (/\ ui[Me] = <<row, day>>
           /\ row < Len(Viewed(Me))
           /\ ToggleStep(Me, row, day))
          => LET before == DayOf(Viewed(Me), <<row, day>>)
                 after == DayOf(Viewed(Me)', <<row, day>>)
             IN /\ after.sessions = Append(before.sessions, <<before.running_start, now>>)
                /\ after.running_start = None
                /\ after.notes = before.notes
                /\ ui'[Me] = NoPtr
                /\ Len(Viewed(Me)') = Len(Viewed(Me))
                /\ \A cell \in CellsOf(Viewed(Me)) \ {<<row, day>>} :
                      DayOf(Viewed(Me)', cell) = DayOf(Viewed(Me), cell)
                /\ before.running_start # None =>
                      day_total_hours(after, now)
                          = SumSessions(before.sessions) + (now - before.running_start)]_vars

\* C6 witness: a timer started at 00:00 and stopped at 01:30 left one session
\* of 90 minutes, 1.5 hours, and no pointer.
C6_Witness ==
    /\ ui[Me] = NoPtr
    /\ now = SlotMinutes
    /\ \E cell \in CellsOf(Viewed(Me)) :
          /\ DayOf(Viewed(Me), cell).sessions = <<<<0, SlotMinutes>>>>
          /\ DayOf(Viewed(Me), cell).running_start = None
          /\ day_total_hours(DayOf(Viewed(Me), cell), now) = 90

\* C7: once a week sheet is submitted no later Toggle starts a timer on it: no
\* cell acquires a runningStart it did not have.
C7_NoStartAfterSubmit ==
    [][\A row \in ButtonRows, day \in ButtonDays :
          (/\ ToggleStep(Me, row, day)
           /\ EntryOf(store[Me], MyKey).submitted)
          => \A cell \in CellsOf(Viewed(Me)) :
                DayOf(Viewed(Me)', cell).running_start # None
                    => DayOf(Viewed(Me)', cell).running_start
                           = DayOf(Viewed(Me), cell).running_start]_vars

\* C8: Submit on a sheet whose every cell has zero hours and blank notes, a
\* sheet without rows included, changes nothing: submitted stays false, no
\* workbook is written and nothing is posted.
C8_EmptySubmitIsNoOp ==
    [][\A xlsx_ok \in BOOLEAN, remote \in RemoteOutcomes :
          (/\ SubmitWeekStep(Me, xlsx_ok, remote)
           /\ ~RowsRaise(Viewed(Me))
           /\ export_data(Viewed(Me), emp[Me], week[Me], now) = <<>>)
          => /\ store'[Me] = store[Me]
             /\ file' = file
             /\ ~out'.xlsx
             /\ ~out'.post]_vars

\* C9: the submitted flag of a persisted sheet only moves from false to true:
\* whatever the client does next, a submitted sheet stays submitted.
C9_SubmittedStays ==
    [][\A k \in DOMAIN file :
          file[k].submitted => (k \in DOMAIN file' /\ file'[k].submitted)]_vars

\* C9 witness: a submitted sheet on which the client went on working: the
\* last callback was not the submission, and a timer runs on the sheet.
C9_Witness ==
    /\ MyKey \in DOMAIN file
    /\ file[MyKey].submitted
    /\ out = Quiet
    /\ now = SlotMinutes
    /\ ui[Me] # NoPtr
    /\ ui[Me] \in CellsOf(Viewed(Me))
    /\ DayOf(Viewed(Me), ui[Me]).running_start = now

\* C10: when Submit has records to export and the workbook is written, the
\* sheet ends submitted whatever the remote sink does; the remote outcome is
\* only recorded as the status value and nothing is raised.
C10_SubmitDespiteRemote ==
    [][\A remote \in RemoteOutcomes :
          (/\ SubmitWeekStep(Me, TRUE, remote)
           /\ ~RowsRaise(Viewed(Me))
           /\ export_data(Viewed(Me), emp[Me], week[Me], now) # <<>>)
          => /\ EntryOf(store'[Me], MyKey).submitted
             /\ EntryOf(file', MyKey).submitted
             /\ EntryOf(file', MyKey).server_upload_status = remote
             /\ EntryOf(file', MyKey).rows = Viewed(Me)
             /\ ~out'.raised]_vars

\* C10 witness: a week with a record to export was submitted while the POST
\* raised: the sheet is submitted and carries the failure value 0.
C10_Witness ==
    /\ out = [raised |-> FALSE, xlsx |-> TRUE, post |-> TRUE]
    /\ export_data(Viewed(Me), emp[Me], week[Me], now) # <<>>
    /\ EntryOf(file, MyKey).submitted
    /\ EntryOf(file, MyKey).server_upload_status = 0

\* C11: when the workbook cannot be written Submit ends in an error, nothing
\* is posted, and the client's document and the data file are what they were,
\* the sheet's submitted flag included.
C11_ExportFailureAborts ==
    [][\A remote \in RemoteOutcomes :
          (/\ SubmitWeekStep(Me, FALSE, remote)
           /\ ~RowsRaise(Viewed(Me)))
          => /\ out'.raised
             /\ ~out'.post
             /\ ~out'.xlsx
             /\ store'[Me] = store[Me]
             /\ file' = file
             /\ ui'[Me] = ui[Me]
             /\ EntryOf(file', MyKey).submitted = EntryOf(file, MyKey).submitted]_vars

\* C11 witness: a Submit of a sheet with a record to export has just raised
\* on the workbook, and the sheet is still not submitted.
C11_Witness ==
    /\ out = [raised |-> TRUE, xlsx |-> FALSE, post |-> FALSE]
    /\ ~RowsRaise(Viewed(Me))
    /\ export_data(Viewed(Me), emp[Me], week[Me], now) # <<>>
    /\ ~EntryOf(file, MyKey).submitted
    /\ ~EntryOf(store[Me], MyKey).submitted

\* C12: no update of a week sheet is lost between two clients that loaded it:
\* a row either of them adds is appended to the rows the data file holds, and
\* a toggle of either of them drops no row the data file holds.
C12_NoLostUpdate ==
    [][\A c \in Clients :
          LET key == Key(emp[c], week[c]) IN
          /\ \A task \in OneTask \ {NoTask}, subtask \in Subtasks :
                AddRowStep(c, task, subtask)
                => RowsOf(file', key) = Append(RowsOf(file, key), NewRow(task, subtask))
          /\ \A row \in ButtonRows, day \in ButtonDays :
                ToggleStep(c, row, day)
                => Len(RowsOf(file', key)) = Len(RowsOf(file, key))]_vars

\* C13: every key under which a sheet is created or changed carries the Monday
\* of its week as the week start date.
C13_KeysAreMondays ==
    \A k \in DOMAIN file : k[2] = monday_of(k[2])

\* C14: LoadOrCreate is idempotent: the call creates an empty, unsubmitted
\* sheet when the key is absent and writes the file only then; the same call
\* made again returns the same document and writes nothing.
C14_LoadIdempotent ==
    [][\A e \in Emps, w \in WeekDates :
          LoadUserStep(Me, e, w)
          => \E again \in {load_user(file', ui'[Me], e, w)} :
                /\ again.data = store'[Me]
                /\ ~again.saved
                /\ store'[Me] = file'
                /\ Key(e, w) \in DOMAIN file'
                /\ Key(e, w) \notin DOMAIN file
                      => /\ file'[Key(e, w)] = NewEntry
                         /\ \A k \in DOMAIN file : file'[k] = file[k]
                /\ Key(e, w) \in DOMAIN file => file' = file]_vars

\* C14 witness: the week picker was moved to Tuesday and back: the Tuesday
\* sheet was created empty and persisted, and the Monday sheet, loaded when
\* the page opened, was loaded a second time.
C14_Witness ==
    /\ week[Me] = Week0
    /\ Key(Emp0, 1) \in DOMAIN file
    /\ file[Key(Emp0, 1)] = NewEntry
    /\ store[Me] = file

\* C15: adding a row with any task and then deleting the last row index gives
\* back the row sequence the sheet had: same rows, same order, same cells.
\* Stated of add_row's result handed on to delete_row, in every state the
\* client can reach.
C15_AddDeleteRoundTrip ==
    \A task \in Tasks \ {NoTask}, subtask \in Subtasks :
        \E added \in {AddRowResult(Me, task, subtask)} :
            \E deleted \in {delete_row(added.data, added.ui, emp[Me], week[Me],
                                       Len(RowsOf(added.data, MyKey)) - 1)} :
                /\ Len(RowsOf(added.data, MyKey)) = Len(Viewed(Me)) + 1
                /\ deleted.saved
                /\ RowsOf(deleted.data, MyKey) = Viewed(Me)
                /\ deleted.data = store[Me]

\* C15 witness: a sheet whose rows hold a closed session and an open timer,
\* all of which the round trip has to give back.
C15_Witness ==
    /\ \E cell \in CellsOf(Viewed(Me)) : DayOf(Viewed(Me), cell).sessions # <<>>
    /\ \E cell \in CellsOf(Viewed(Me)) : DayOf(Viewed(Me), cell).running_start # None
    /\ Len(Viewed(Me)) = MaxRows
    /\ \E added \in {AddRowResult(Me, "Meeting", "")} :
          /\ added.branch = "added"
          /\ delete_row(added.data, added.ui, emp[Me], week[Me], MaxRows).branch = "deleted"

\* C16: AddRow without a task changes neither the client's document nor the
\* data file and raises nothing; AddRow with a task and any subtask appends
\* one row at the end, of 7 cells without sessions, running start or notes,
\* and leaves the rows before it as they were.  Stated of add_row's result in
\* every state the client can reach.
C16_AddRowAppendsFresh ==
    \A task \in Tasks, subtask \in Subtasks \cup {"Meeting"} :
        \E res \in {AddRowResult(Me, task, subtask)} :
            IF task = NoTask
            THEN /\ res.data = store[Me]
                 /\ res.ui = ui[Me]
                 /\ ~res.saved
                 /\ ~res.raised
            ELSE LET rows == RowsOf(res.data, MyKey)
                     last == rows[Len(rows)]
                 IN /\ Len(rows) = Len(Viewed(Me)) + 1
                    /\ \A i \in 1..Len(Viewed(Me)) : rows[i] = Viewed(Me)[i]
                    /\ last.task = task
                    /\ last.subtask = subtask
                    /\ Len(last.days) = 7
                    /\ \A i \in 1..7 :
                          /\ last.days[i].sessions = <<>>
                          /\ last.days[i].running_start = None
                          /\ last.days[i].notes = <<>>
                    /\ res.saved
                    /\ ~res.raised

\* C16 witness: a fresh row stands at the end of a sheet, after a row that
\* already holds a running timer, and the data file holds the same sheet.
C16_Witness ==
    /\ Len(Viewed(Me)) = 2
    /\ Viewed(Me)[2] = NewRow("Adhoc", "")
    /\ \E i \in 1..DaysPerWeek : Viewed(Me)[1].days[i].running_start # None
    /\ file = store[Me]

\* C17: Toggle with a row index or a day index outside the sheet (row negative
\* or not below the number of rows, day outside 0..6) is a no-op: nothing is
\* raised, and the sheet and the pointer stay as they are.
C17_OutOfRangeToggleIsNoOp ==
    [][\A row \in AnyRows, day \in AnyDays :
          (/\ ToggleStep(Me, row, day)
           /\ \/ row < 0
              \/ row >= Len(Viewed(Me))
              \/ day < 0
              \/ day >= DaysPerWeek)
          => /\ ~out'.raised
             /\ store'[Me] = store[Me]
             /\ ui'[Me] = ui[Me]]_vars

\* C18: DeleteRow with an index in bounds removes the row at that index and
\* keeps every other row, content and order; with an index out of bounds it
\* changes neither the client's document nor the data file and raises
\* nothing.  Stated of delete_row's result in every state the client can reach.
C18_DeleteRowFrame ==
    \A idx \in AnyRows :
        \E res \in {DeleteRowResult(Me, idx)} :
            LET rows == RowsOf(res.data, MyKey) IN
            IF 0 <= idx /\ idx < Len(Viewed(Me))
            THEN /\ Len(rows) = Len(Viewed(Me)) - 1
                 /\ \A i \in 1..Len(rows) :
                       rows[i] = IF i <= idx THEN Viewed(Me)[i] ELSE Viewed(Me)[i + 1]
                 /\ res.saved
                 /\ ~res.raised
            ELSE /\ res.data = store[Me]
                 /\ res.ui = ui[Me]
                 /\ ~res.saved
                 /\ ~res.raised

\* C18 witness: the first of two rows was deleted while the second one's
\* Monday timer ran: the pointer still names row 1, the row now stands at
\* index 0 with its timer as it was.
C18_Witness ==
    /\ ui[Me] = <<1, 0>>
    /\ Len(Viewed(Me)) = 1
    /\ Viewed(Me)[1].days[1].running_start # None
    /\ file = store[Me]

\* C19: SetNotes changes notes only: every cell keeps its sessions and its
\* running start, the rows keep their number, task and subtask, the sheet
\* keeps its submitted flag, and the pointer stays as it is.  Stated of
\* save_notes' result in every state the client can reach.
C19_SaveNotesFrame ==
    \A row \in 0..SubmitRows, day \in NoteDays \cup {DaysPerWeek - 1}, text \in NoteTexts :
        \E res \in {SaveNotesResult(Me, row, day, text)} :
            LET rows == RowsOf(res.data, MyKey) IN
            /\ Len(rows) = Len(Viewed(Me))
            /\ \A i \in 1..Len(Viewed(Me)) :
                  /\ rows[i].task = Viewed(Me)[i].task
                  /\ rows[i].subtask = Viewed(Me)[i].subtask
            /\ \A cell \in CellsOf(Viewed(Me)) :
                  /\ DayOf(rows, cell).sessions = DayOf(Viewed(Me), cell).sessions
                  /\ DayOf(rows, cell).running_start = DayOf(Viewed(Me), cell).running_start
                  /\ DayOf(rows, cell).notes
                         = IF cell = <<row, day>> THEN text
                           ELSE DayOf(Viewed(Me), cell).notes
            /\ EntryOf(res.data, MyKey).submitted = EntryOf(store[Me], MyKey).submitted
            /\ EntryOf(res.data, MyKey).server_upload_status
                   = EntryOf(store[Me], MyKey).server_upload_status
            /\ DOMAIN res.data = DOMAIN store[Me]
            /\ res.ui = ui[Me]
            /\ res.saved
            /\ ~res.raised

\* C19 witness: a note was saved on a cell that holds a closed session and
\* whose timer runs again, on a sheet that is submitted.
C19_Witness ==
    \E cell \in CellsOf(Viewed(Me)) :
        /\ DayOf(Viewed(Me), cell).notes = <<" ", "n">>
        /\ DayOf(Viewed(Me), cell).sessions # <<>>
        /\ DayOf(Viewed(Me), cell).running_start # None
        /\ ui[Me] = cell
        /\ EntryOf(file, MyKey).submitted

\* C20: every session stored in the sheet has a start that is a timestamp,
\* never absent, and an end not earlier than its start, so that the day total
\* can always be computed.
C20_SessionsWellFormed ==
    \A cell \in CellsOf(Viewed(Me)) :
        /\ ~DayRaises(DayOf(Viewed(Me), cell))
        /\ \A i \in 1..Len(DayOf(Viewed(Me), cell).sessions) :
              LET session == DayOf(Viewed(Me), cell).sessions[i] IN
              /\ session[1] # None
              /\ session[2] >= session[1]

\* C21: read at two instants with nothing done to the cell in between, the
\* day total of a running cell does not shrink from the earlier to the later
\* instant and is the closed sessions' durations plus the time since the
\* running start; the day total of a cell that is not running is the same at
\* every instant.
C21_DayTotalMonotone ==
    \A cell \in CellsOf(Viewed(Me)) :
        LET d == DayOf(Viewed(Me), cell) IN
        ~DayRaises(d)
        => \A now1 \in ClockTimes, now2 \in ClockTimes :
              now1 <= now2
              => IF d.running_start # None
                 THEN /\ day_total_hours(d, now2) >= day_total_hours(d, now1)
                      /\ day_total_hours(d, now2)
                             = SumSessions(d.sessions) + (now2 - d.running_start)
                 ELSE /\ day_total_hours(d, now2) = day_total_hours(d, now1)
                      /\ day_total_hours(d, now2) = SumSessions(d.sessions)

\* C21 witness: a cell with a closed session of 90 minutes whose timer was
\* started again at 01:30 and still runs on Tuesday: its total has grown to
\* the 90 minutes plus the time since 01:30.
C21_Witness ==
    \E cell \in CellsOf(Viewed(Me)) :
        /\ DayOf(Viewed(Me), cell).sessions = <<<<0, SlotMinutes>>>>
        /\ DayOf(Viewed(Me), cell).running_start = SlotMinutes
        /\ now = MinutesPerDay
        /\ day_total_hours(DayOf(Viewed(Me), cell), now) = MinutesPerDay
        /\ day_total_hours(DayOf(Viewed(Me), cell), SlotMinutes) = SlotMinutes

\* C22: the week total is the sum of the row totals and each row total is the
\* sum of the row's 7 day totals, all read at the same instant; two rows with
\* 1.25 hours each on Monday give 2.5 hours, shown as 02:30.
C22_WeekTotalIsSumOfRows ==
    /\ ~RowsRaise(Viewed(Me))
       => /\ \A i \in 1..Len(Viewed(Me)) :
                LET days == Viewed(Me)[i].days IN
                row_total(Viewed(Me)[i], now)
                    = day_total_hours(days[1], now) + day_total_hours(days[2], now)
                      + day_total_hours(days[3], now) + day_total_hours(days[4], now)
                      + day_total_hours(days[5], now) + day_total_hours(days[6], now)
                      + day_total_hours(days[7], now)
          /\ week_total(Viewed(Me), now)
                 = (IF Len(Viewed(Me)) >= 1 THEN row_total(Viewed(Me)[1], now) ELSE 0)
                   + (IF Len(Viewed(Me)) >= 2 THEN row_total(Viewed(Me)[2], now) ELSE 0)
                   + (IF Len(Viewed(Me)) >= 3 THEN row_total(Viewed(Me)[3], now) ELSE 0)
                   + (IF Len(Viewed(Me)) >= 4 THEN row_total(Viewed(Me)[4], now) ELSE 0)
    /\ LET logged == [EmptyDay EXCEPT !.sessions = <<<<0, 75>>>>]
           row == [NewRow("Adhoc", "") EXCEPT !.days[1] = logged]
       IN /\ week_total(<<row, row>>, now) = 150
          /\ format_hours_hhmm(week_total(<<row, row>>, now)) = <<2, 30>>

\* C22 witness: two rows, one with a closed 90 minutes on Monday, the other
\* running since 01:30, read on Tuesday 00:00: row totals of 90 and 1350
\* minutes, a week total of 24 hours.
C22_Witness ==
    /\ Len(Viewed(Me)) = 2
    /\ now = MinutesPerDay
    /\ ~RowsRaise(Viewed(Me))
    /\ {row_total(Viewed(Me)[1], now), row_total(Viewed(Me)[2], now)}
           = {SlotMinutes, MinutesPerDay - SlotMinutes}
    /\ week_total(Viewed(Me), now) = MinutesPerDay
    /\ format_hours_hhmm(week_total(Viewed(Me), now)) = <<24, 0>>

\* C23 as stated: the export holds one record for each cell whose day total
\* is above zero or whose notes are not empty, in row-then-day order, and
\* none for the other cells.
C23_ExportByNotes ==
    LET rows == Viewed(Me)
        recs == export_data(rows, emp[Me], week[Me], now)
        Rank(cell) == cell[1] * DaysPerWeek + cell[2]
        chosen == {cell \in CellsOf(rows) :
                      \/ day_total_hours(DayOf(rows, cell), now) > 0
                      \/ DayOf(rows, cell).notes # <<>>}
        Place(cell) == Cardinality({other \in chosen : Rank(other) < Rank(cell)}) + 1
    IN /\ Len(recs) = Cardinality(chosen)
       /\ \A cell \in chosen :
             /\ recs[Place(cell)].Task = rows[cell[1] + 1].task
             /\ recs[Place(cell)].Subtask = rows[cell[1] + 1].subtask
             /\ recs[Place(cell)].Date = week[Me] + cell[2]

\* C23 amended: the export holds one record for each cell whose day total is
\* above zero or whose notes, with the white space around them removed, are
\* not empty, in row-then-day order, and none for the other cells; a record
\* carries the row's task and subtask, the date of the cell, its day total and
\* its notes without the surrounding white space.
C23_ExportByTrimmedNotes ==
    LET rows == Viewed(Me)
        recs == export_data(rows, emp[Me], week[Me], now)
        Rank(cell) == cell[1] * DaysPerWeek + cell[2]
        chosen == {cell \in CellsOf(rows) :
                      \/ day_total_hours(DayOf(rows, cell), now) > 0
                      \/ \E i \in 1..Len(DayOf(rows, cell).notes) :
                            DayOf(rows, cell).notes[i] # " "}
        Place(cell) == Cardinality({other \in chosen : Rank(other) < Rank(cell)}) + 1
    IN /\ Len(recs) = Cardinality(chosen)
       /\ \A cell \in chosen :
             /\ recs[Place(cell)].Task = rows[cell[1] + 1].task
             /\ recs[Place(cell)].Subtask = rows[cell[1] + 1].subtask
             /\ recs[Place(cell)].Date = week[Me] + cell[2]
             /\ recs[Place(cell)].Employee = emp[Me]
             /\ recs[Place(cell)].Hours = day_total_hours(DayOf(rows, cell), now)
             /\ recs[Place(cell)].Notes # <<>> =>
                   /\ Head(recs[Place(cell)].Notes) # " "
                   /\ recs[Place(cell)].Notes[Len(recs[Place(cell)].Notes)] # " "

\* C23 witness: a submitted sheet of two rows: the first row's Tuesday holds
\* a session, the second row's Monday a note with text, the first row's
\* Monday a note of one blank; the export is the Tuesday record of the first
\* row and then the Monday record of the second.
C23_Witness ==
    /\ out = [raised |-> FALSE, xlsx |-> TRUE, post |-> TRUE]
    /\ EntryOf(file, MyKey).submitted
    /\ Len(Viewed(Me)) = 2
    /\ Viewed(Me)[1].days[1].notes = <<" ">>
    /\ \E recs \in {export_data(Viewed(Me), emp[Me], week[Me], now)} :
          /\ Len(recs) = 2
          /\ recs[1].Task = "Adhoc" /\ recs[1].Date = 1 /\ recs[1].Hours = SlotMinutes
          /\ recs[2].Task = "Meeting" /\ recs[2].Date = 0 /\ recs[2].Notes = <<"n">>

\* C24: for a single client, whenever Toggle, AddRow, DeleteRow, SetNotes or
\* Submit has returned, the sheet the data file holds under the key is the
\* sheet the client was handed.
C24_PersistedIsReturned ==
    /\ MyKey \in DOMAIN file
    /\ MyKey \in DOMAIN store[Me]
    /\ file[MyKey] = store[Me][MyKey]

\* C24 witness: a row was added, timed, annotated and submitted, and the data
\* file holds all of it.
C24_Witness ==
    /\ EntryOf(file, MyKey).submitted
    /\ \E cell \in CellsOf(RowsOf(file, MyKey)) :
          /\ DayOf(RowsOf(file, MyKey), cell).sessions # <<>>
          /\ DayOf(RowsOf(file, MyKey), cell).notes # <<>>
    /\ file[MyKey] = store[Me][MyKey]

\* C26: no running interval is lost to a Toggle: when a Toggle clears or
\* overwrites the running start S of a cell, the same Toggle appends a session
\* from S to now to that cell.
C26_NoIntervalLost ==
    [][\A row \in ButtonRows, day \in ButtonDays :
          ToggleStep(Me, row, day)
          => \A cell \in CellsOf(Viewed(Me)) :
                LET before == DayOf(Viewed(Me), cell)
                    after == DayOf(Viewed(Me)', cell)
                IN (before.running_start # None
                        /\ after.running_start # before.running_start)
                   => after.sessions
                          = Append(before.sessions, <<before.running_start, now>>)]_vars

\* C27: an operation of a client on the key it views changes the persisted
\* sheet of no other key, whatever another client has done to that key in the
\* meantime.
C27_OtherKeysUntouched ==
    [][\A c \in Clients :
          (\/ \E task \in OneTask, subtask \in Subtasks : AddRowStep(c, task, subtask)
           \/ \E row \in 0..(SubmitRows - 1), day \in PickedDays : ToggleStep(c, row, day))
          => \A k \in DOMAIN file :
                k # Key(emp[c], week[c]) => (k \in DOMAIN file' /\ file'[k] = file[k])]_vars

\* C28: Submit changes the submitted flag and the remote status of the sheet
\* and nothing else: the rows, their tasks and subtasks and every cell's
\* sessions, running start and notes are what they were, so a timer running
\* at submission still runs, and the pointer is what it was.  Stated of
\* submit_week's result in every state the client can reach.
C28_SubmitFrame ==
    \A xlsx_ok \in BOOLEAN, remote \in RemoteOutcomes :
        \E res \in {SubmitWeekResult(Me, xlsx_ok, remote)} :
            /\ RowsOf(res.data, MyKey) = Viewed(Me)
            /\ res.ui = ui[Me]
            /\ DOMAIN res.data = DOMAIN store[Me]
            /\ \A k \in DOMAIN store[Me] : k # MyKey => res.data[k] = store[Me][k]
            /\ res.branch = "submitted"
                  => /\ EntryOf(res.data, MyKey).submitted
                     /\ EntryOf(res.data, MyKey).server_upload_status = remote
                     /\ res.saved

\* C28 witness: a week was submitted while a timer ran: the sheet is
\* submitted, the cell still runs without a session, the pointer still names it.
C28_Witness ==
    /\ out = [raised |-> FALSE, xlsx |-> TRUE, post |-> TRUE]
    /\ EntryOf(file, MyKey).submitted
    /\ ui[Me] \in CellsOf(Viewed(Me))
    /\ DayOf(Viewed(Me), ui[Me]).running_start = 0
    /\ DayOf(Viewed(Me), ui[Me]).sessions = <<>>
    /\ now = SlotMinutes

\* C25: Submit always completes.  A submit_week call that waits in the POST
\* leaves it, whatever the sink does: the week is then persisted as submitted
\* with a status the POST can end with, which is 0 (remote failure) when the
\* sink refused or never answered.
C25_SubmitCompletes ==
    (call.pos = "posting")
        ~> (/\ call.pos = "idle"
            /\ out.post
            /\ EntryOf(file, MyKey).submitted
            /\ EntryOf(file, MyKey).server_upload_status \in PostEnds(call.sink)
            /\ call.sink \in {"refuses", "silent"}
                  => EntryOf(file, MyKey).server_upload_status = 0)

\* C25 witness: a Submit whose POST went to a sink that never answered has
\* returned: the week is persisted as submitted with status 0.
C25_Witness ==
    /\ call.pos = "idle"
    /\ call.sink = "silent"
    /\ out = [raised |-> FALSE, xlsx |-> TRUE, post |-> TRUE]
    /\ EntryOf(file, MyKey).submitted
    /\ EntryOf(file, MyKey).server_upload_status = 0
    /\ Viewed(Me) # <<>>

====
